---- MODULE Spec2Model ----
(***************************************************************************)
(* Edited Motif Search (EMS): the three engine families of the repository  *)
(* (Ems1, Ems2 over MotifTreeFast / MotifTreeSimple, Ems2p) and the trie   *)
(* operations they are built on.                                           *)
(*                                                                         *)
(* Encoded strings are sequences of letter codes.  A bit mask              *)
(* (sharing_info) is modelled as the set of its set bit positions.         *)
(***************************************************************************)
EXTENDS Integers, Sequences, FiniteSets, TLC

VARIABLES
    max_depth,   \* MotifTreeBase.max_depth of the tries of SpecTrie
    fastA,       \* MotifTreeFast "main":  [heap, root]
    fastB,       \* MotifTreeFast "tmp":   [heap, root]
    simpA,       \* MotifTreeSimple "main": root node (nested value)
    simpB,       \* MotifTreeSimple "tmp":  root node (nested value)
    nOps,        \* number of trie calls made so far
    nInsA,       \* number of insert calls made on main
    nInsB,       \* number of insert calls made on tmp
    nIntersect,  \* number of intersect calls made so far
    lastOp,      \* the last trie call: [kind, tree, motif]
    l,           \* MotifFinderBase.l
    d,           \* MotifFinderBase.d
    reads,       \* MotifFinderBase.reads: the encoded sequences
    num_threads, \* Params.num_threads
    idx,         \* per engine: number of sequences its search loop has processed
    returned,    \* per engine: search() has returned
    motifs,      \* per engine: MotifFinderBase.motifs
    motif_counts,    \* Ems1.motif_counts
    last_seq_match,  \* Ems1.last_seq_match
    main_array,      \* Ems2p.main_array (packed keys)
    call_fn,     \* SpecCall: the routine called last ("none" before any call)
    call_arg,    \* SpecCall: its arguments
    call_out,    \* SpecCall: what it returned or appended
    mset,        \* SpecSet: the MotifSet: [heap, data_desc, desc_pos, last_popped_motif]
    ms_log       \* SpecSet: the calls made on mset since it was fresh or cleared

treeVars == <<fastA, fastB, simpA, simpB>>
callVars == <<nOps, nInsA, nInsB, nIntersect, lastOp>>
inputVars == <<l, d, reads, num_threads>>
searchVars == <<inputVars, idx, returned, motifs, motif_counts, last_seq_match, main_array>>

unitVars == <<call_fn, call_arg, call_out>>

setVars == <<mset, ms_log>>

vars == <<max_depth, treeVars, callVars, searchVars, unitVars, setVars>>

----------------------------------------------------------------------------
(* Program constants *)

DomainSize == 4
WILDCARD_CODE == 4

Letters == 0 .. (DomainSize - 1)
mask == Letters

----------------------------------------------------------------------------
(* Bounds *)

MaxDepth  == 2     \* largest trie depth l
MaxLetter == 1     \* inserted patterns use the letters 0..MaxLetter and WILDCARD
MaxInsA   == 1     \* insert calls on the main trie in one behaviour
MaxInsB   == 2     \* insert calls on the tmp trie in one behaviour
MaxIntersects == 1 \* intersect calls in one behaviour
MaxL         == 2  \* largest motif length l
MaxD         == 1  \* largest edit distance d
MaxReads     == 3  \* largest number of input sequences
MaxSeqLen    == 2  \* largest length of an input sequence
MaxSeqLetter == 1  \* input sequences use the letters 0..MaxSeqLetter
MaxThreads   == 2  \* largest worker count of Ems2p

PatSyms == (0 .. MaxLetter) \cup {WILDCARD_CODE}
Patterns(ll) == [1 .. ll -> PatSyms]

----------------------------------------------------------------------------
(* Helpers on encoded strings *)

\* 'c'.isdigit() for the one-character codes of the model
IsDigit(c) == c \in 0 .. 9

\* ch = int(motif[depth]) if motif[depth].isdigit() else WILDCARD_CODE
CharAt(motif, depth) ==
    IF IsDigit(motif[depth + 1]) THEN motif[depth + 1] ELSE WILDCARD_CODE

ToSet(s) == {s[i] : i \in 1 .. Len(s)}

----------------------------------------------------------------------------
(* MotifTreeFast: nodes live in a heap (sequence); node id 0 is None *)

NoChildren == [j \in Letters |-> 0]

allocate_node_fast(h) ==
    Append(h, [children |-> NoChildren, sharing_info |-> {}])

NewFastTree == [heap |-> allocate_node_fast(<<>>), root |-> 1]

_empty_node(h, node) == \A j \in Letters : h[node].children[j] = 0

RECURSIVE FastInsertRec(_, _, _, _, _)
RECURSIVE FastWildLoop(_, _, _, _, _, _, _)

\* the loop "for j in range(domain_size)" of the wildcard branch;
\* returns the heap and current_info after slots j..3
FastWildLoop(h, node, motif, depth, ll, j, current_info) ==
    IF j >= DomainSize THEN [heap |-> h, info |-> current_info]
    ELSE LET child_node == h[node].children[j] IN
         IF child_node # 0 /\ j \notin current_info
         THEN LET h2 == FastInsertRec(h, child_node, motif, depth + 1, ll) IN
              FastWildLoop(h2, node, motif, depth, ll, j + 1,
                           current_info \cup h2[child_node].sharing_info)
         ELSE FastWildLoop(h, node, motif, depth, ll, j + 1, current_info)

FastInsertRec(h, node, motif, depth, ll) ==
    IF depth >= ll THEN h
    ELSE LET ch == CharAt(motif, depth) IN
      IF ch = WILDCARD_CODE
      THEN LET w == FastWildLoop(h, node, motif, depth, ll, 0, {})
               remaining == mask \ w.info
               new_node == Len(w.heap) + 1
               h1 == allocate_node_fast(w.heap)
               h2 == [h1 EXCEPT ![new_node].sharing_info = remaining,
                                ![node].children =
                                    [j \in Letters |->
                                        IF j \in remaining THEN new_node
                                        ELSE h1[node].children[j]]]
           IN IF remaining # {}
              THEN FastInsertRec(h2, new_node, motif, depth + 1, ll)
              ELSE w.heap
      ELSE LET child_mask == {ch}
               child_node == h[node].children[ch]
               new_node == Len(h) + 1
               h1 == allocate_node_fast(h)
           IN IF child_node = 0
              THEN FastInsertRec(
                     [h1 EXCEPT ![new_node].sharing_info = child_mask,
                                ![node].children[ch] = new_node],
                     new_node, motif, depth + 1, ll)
              ELSE IF h[child_node].sharing_info \ child_mask # {}
                   THEN FastInsertRec(
                          [h1 EXCEPT ![new_node].sharing_info = child_mask,
                                     ![child_node].sharing_info = @ \ child_mask,
                                     ![node].children[ch] = new_node],
                          new_node, motif, depth + 1, ll)
                   ELSE FastInsertRec(h, child_node, motif, depth + 1, ll)

FastInsert(t, motif, ll) ==
    [heap |-> FastInsertRec(t.heap, t.root, motif, 0, ll), root |-> t.root]

RECURSIVE FastIntersectRec(_, _, _, _, _, _)
RECURSIVE FastIntersectLoop(_, _, _, _, _, _, _, _)

\* the loop "for j in range(domain_size)" of intersect_recursive
FastIntersectLoop(h, hFrom, to_node, from_node, new_to_node, depth, ll, j) ==
    IF j >= DomainSize THEN h
    ELSE LET to_child_original == h[to_node].children[j]
             from_child_original == hFrom[from_node].children[j]
         IN
         IF to_child_original = 0
         THEN FastIntersectLoop(h, hFrom, to_node, from_node, new_to_node, depth, ll, j + 1)
         ELSE LET to_info_original == h[to_child_original].sharing_info
                  from_info == IF from_child_original # 0
                               THEN hFrom[from_child_original].sharing_info
                               ELSE {}
                  common == to_info_original \cap from_info
              IN
              IF common = {}
              THEN FastIntersectLoop(h, hFrom, to_node, from_node, new_to_node, depth, ll, j + 1)
              ELSE LET r == FastIntersectRec(h, hFrom, to_child_original,
                                             from_child_original, depth + 1, ll)
                       intersected_child == r.node
                       h3 == [r.heap EXCEPT
                                ![intersected_child].sharing_info = common]
                       h4 == [h3 EXCEPT
                                ![new_to_node].children =
                                    [k \in Letters |->
                                        IF k \in common THEN intersected_child
                                        ELSE h3[new_to_node].children[k]],
                                ![new_to_node].sharing_info = @ \cup common]
                   IN FastIntersectLoop(
                        IF intersected_child # 0 THEN h4 ELSE r.heap,
                        hFrom, to_node, from_node, new_to_node, depth, ll, j + 1)

FastIntersectRec(h, hFrom, to_node, from_node, depth, ll) ==
    IF depth >= ll THEN [heap |-> h, node |-> to_node]
    ELSE IF from_node = 0 THEN [heap |-> h, node |-> 0]
    ELSE LET new_to_node == Len(h) + 1
             h1 == allocate_node_fast(h)
             h2 == FastIntersectLoop(h1, hFrom, to_node, from_node, new_to_node, depth, ll, 0)
         IN IF _empty_node(h2, new_to_node) /\ depth < ll
            THEN [heap |-> h2, node |-> 0]
            ELSE [heap |-> h2, node |-> new_to_node]

\* FastIntersect making the other tree the main tree
FastIntersect_TakeOther(t, other, ll) == other

\* MotifTreeBase.intersect with the fast allocator
FastIntersect(t, other, ll) ==
    LET r == FastIntersectRec(t.heap, other.heap, t.root, other.root, 0, ll) IN
    IF r.node # 0
    THEN [heap |-> r.heap, root |-> r.node]
    ELSE [heap |-> allocate_node_fast(r.heap), root |-> Len(r.heap) + 1]

RECURSIVE FastTraverseRec(_, _, _, _, _)
RECURSIVE FastTraverseLoop(_, _, _, _, _, _)

FastTraverseLoop(h, node, depth, ll, x, i) ==
    IF i >= DomainSize THEN <<>>
    ELSE LET child_node == h[node].children[i] IN
         (IF child_node # 0
          THEN FastTraverseRec(h, child_node, depth + 1, ll, Append(x, i))
          ELSE <<>>)
         \o FastTraverseLoop(h, node, depth, ll, x, i + 1)

\* the list of strings appended to motifs, in order
FastTraverseRec(h, node, depth, ll, x) ==
    IF depth = ll THEN <<x>>
    ELSE FastTraverseLoop(h, node, depth, ll, x, 0)

FastTraverse(t, ll) == FastTraverseRec(t.heap, t.root, 0, ll, <<>>)

----------------------------------------------------------------------------
(* MotifTreeSimple: a node is the nested value [children, sharing_info] *)

allocate_node_slow == [children |-> <<>>, sharing_info |-> {}]

NewSimpleTree == allocate_node_slow

\* FindChild looking for a child whose mask equals target_info
FindChild_SameMask(children, target_info) ==
    LET hits == {i \in 1 .. Len(children) :
                    children[i].sharing_info = target_info}
    IN IF hits = {} THEN 0
       ELSE CHOOSE i \in hits : \A k \in hits : i <= k

\* index of the first child whose mask meets target_info, 0 if there is none
FindChild(children, target_info) ==
    LET hits == {i \in 1 .. Len(children) :
                    children[i].sharing_info \cap target_info # {}}
    IN IF hits = {} THEN 0
       ELSE CHOOSE i \in hits : \A k \in hits : i <= k

RECURSIVE SimpleInsertRec(_, _, _, _)

SimpleInsertRec(node, motif, depth, ll) ==
    IF depth >= ll THEN node
    ELSE LET ch == CharAt(motif, depth)
             target_info == IF ch = WILDCARD_CODE THEN mask ELSE {ch}
             found_child == FindChild(node.children, target_info)
         IN IF found_child # 0
            THEN [node EXCEPT !.children[found_child] =
                     SimpleInsertRec(@, motif, depth + 1, ll)]
            ELSE [node EXCEPT !.children =
                     Append(@, SimpleInsertRec(
                                  [allocate_node_slow EXCEPT !.sharing_info = target_info],
                                  motif, depth + 1, ll))]

SimpleInsert(root, motif, ll) == SimpleInsertRec(root, motif, 0, ll)

RECURSIVE SimpleIntersectRec(_, _, _, _)
RECURSIVE SimpleIntersectLoop(_, _, _, _, _, _)

\* the nested loops over to_node['children'] x from_node['children'],
\* from pair (ti, fi) on; returns the nodes appended to new_children
SimpleIntersectLoop(to_node, from_node, depth, ll, ti, fi) ==
    IF ti > Len(to_node.children) THEN <<>>
    ELSE IF fi > Len(from_node.children)
    THEN SimpleIntersectLoop(to_node, from_node, depth, ll, ti + 1, 1)
    ELSE LET to_child == to_node.children[ti]
             from_child == from_node.children[fi]
             common == to_child.sharing_info \cap from_child.sharing_info
             r == SimpleIntersectRec(to_child, from_child, depth + 1, ll)
         IN (IF common # {} /\ r.some
             THEN <<[children |-> r.node.children, sharing_info |-> common]>>
             ELSE <<>>)
            \o SimpleIntersectLoop(to_node, from_node, depth, ll, ti, fi + 1)

\* returns [some, node]; some = FALSE stands for None
SimpleIntersectRec(to_node, from_node, depth, ll) ==
    IF depth >= ll THEN [some |-> TRUE, node |-> to_node]
    ELSE IF from_node.children = <<>> THEN [some |-> FALSE, node |-> allocate_node_slow]
    ELSE LET new_children == SimpleIntersectLoop(to_node, from_node, depth, ll, 1, 1)
         IN IF new_children = <<>> /\ depth < ll
            THEN [some |-> FALSE, node |-> allocate_node_slow]
            ELSE [some |-> TRUE,
                  node |-> [allocate_node_slow EXCEPT !.children = new_children]]

\* MotifTreeBase.intersect with the slow allocator
SimpleIntersect(root, other, ll) ==
    LET r == SimpleIntersectRec(root, other, 0, ll) IN
    IF r.some THEN r.node ELSE allocate_node_slow

\* children_map.get(i): the last child in list order whose mask has bit i, 0 if none
ChildrenMap(node, i) ==
    LET hits == {c \in 1 .. Len(node.children) : i \in node.children[c].sharing_info}
    IN IF hits = {} THEN 0
       ELSE CHOOSE c \in hits : \A k \in hits : k <= c

RECURSIVE SimpleTraverseRec(_, _, _, _)
RECURSIVE SimpleTraverseLoop(_, _, _, _, _)

SimpleTraverseLoop(node, depth, ll, x, i) ==
    IF i >= DomainSize THEN <<>>
    ELSE LET c == ChildrenMap(node, i) IN
         (IF c # 0
          THEN SimpleTraverseRec(node.children[c], depth + 1, ll, Append(x, i))
          ELSE <<>>)
         \o SimpleTraverseLoop(node, depth, ll, x, i + 1)

SimpleTraverseRec(node, depth, ll, x) ==
    IF depth = ll THEN <<x>>
    ELSE SimpleTraverseLoop(node, depth, ll, x, 0)

SimpleTraverse(root, ll) == SimpleTraverseRec(root, 0, ll, <<>>)

----------------------------------------------------------------------------
(* Strings, substrings and sorting *)

\* seq[i : i + k] with the 0-based start i
Slice(seq, i, k) == SubSeq(seq, i + 1, i + k)

\* s[:j] + <<c>> + s[j:]
InsertAt(s, j, c) == SubSeq(s, 1, j) \o <<c>> \o SubSeq(s, j + 1, Len(s))

\* s[:j] + <<c>> + s[j+1:]
ReplaceAt(s, j, c) == SubSeq(s, 1, j) \o <<c>> \o SubSeq(s, j + 2, Len(s))

\* s[:j] + s[j+1:]
RemoveAt(s, j) == SubSeq(s, 1, j) \o SubSeq(s, j + 2, Len(s))

\* str.__lt__: lexicographic order
LexLess(a, b) ==
    \E p \in 1 .. (Len(b)) :
        /\ \A q \in 1 .. (p - 1) : q <= Len(a) /\ a[q] = b[q]
        /\ \/ p = Len(a) + 1
           \/ p <= Len(a) /\ a[p] < b[p]

\* list.sort() on a list of strings
RECURSIVE SortInsert(_, _)
SortInsert(sorted, x) ==
    IF sorted = <<>> THEN <<x>>
    ELSE IF LexLess(x, Head(sorted)) THEN <<x>> \o sorted
    ELSE <<Head(sorted)>> \o SortInsert(Tail(sorted), x)

RECURSIVE SortList(_)
SortList(lst) ==
    IF lst = <<>> THEN <<>>
    ELSE SortInsert(SortList(SubSeq(lst, 1, Len(lst) - 1)), lst[Len(lst)])

\* some list holding the elements of a set once each (dict / set iteration order)
RECURSIVE SetToList(_)
SetToList(S) ==
    IF S = {} THEN <<>>
    ELSE LET x == CHOOSE y \in S : TRUE IN <<x>> \o SetToList(S \ {x})

\* concatenation of a list of lists
RECURSIVE Flatten(_)
Flatten(ls) == IF ls = <<>> THEN <<>> ELSE Head(ls) \o Flatten(Tail(ls))

Max(a, b) == IF a >= b THEN a ELSE b
Min(a, b) == IF a <= b THEN a ELSE b

----------------------------------------------------------------------------
(* Ems1: brute-force neighbourhood and counting *)

RECURSIVE _generate_neighborhood(_, _, _)

\* the strings added to current_motif_set by the call
_generate_neighborhood(kmer, errors_remaining, length) ==
    LET current_len == Len(kmer) IN
    IF errors_remaining = 0
    THEN (IF current_len = length THEN {kmer} ELSE {})
    ELSE IF current_len < length - errors_remaining
            \/ current_len > length + errors_remaining
    THEN {}
    ELSE LET dels ==
               IF current_len > 0 /\ current_len >= length - errors_remaining + 1
               THEN UNION {_generate_neighborhood(RemoveAt(kmer, j),
                               errors_remaining - 1, length) :
                           j \in 0 .. (current_len - 1)}
               ELSE {}
             subs ==
               UNION {_generate_neighborhood(ReplaceAt(kmer, jk[1], jk[2]),
                          errors_remaining - 1, length) :
                      jk \in {p \in (0 .. (current_len - 1)) \X Letters :
                                 p[2] # kmer[p[1] + 1]}}
             inss ==
               IF current_len <= length + errors_remaining - 1
               THEN UNION {_generate_neighborhood(InsertAt(kmer, jk[1], jk[2]),
                               errors_remaining - 1, length) :
                           jk \in (0 .. current_len) \X Letters}
               ELSE {}
         IN dels \cup subs \cup inss

\* sequence_candidates of Ems1.search for one sequence
Ems1Candidates(seq, ll, dd) ==
    UNION {_generate_neighborhood(Slice(seq, qs[2], ll + qs[1]), dd, ll) :
           qs \in {p \in ((0 - dd) .. dd) \X (0 .. Len(seq)) :
                      /\ ll + p[1] > 0
                      /\ ll + p[1] <= Len(seq)
                      /\ p[2] <= Len(seq) - (ll + p[1])}}

\* dict.get(key, default)
DictGet(dict, key, default) ==
    IF key \in DOMAIN dict THEN dict[key] ELSE default

----------------------------------------------------------------------------
(* Ems2: wildcard neighbourhood patterns, in the order they are inserted *)

STAR == 42    \* ord('*'), the wildcard mark written into self.kmer
DASH == 45    \* ord('-'), the deletion mark written into self.kmer

\* t of _gen_nbrhood_3: '-' filtered out, '*' replaced by l_target = '4'
RECURSIVE StripAndTarget(_)
StripAndTarget(kmer) ==
    IF kmer = <<>> THEN <<>>
    ELSE (IF Head(kmer) = DASH THEN <<>>
          ELSE IF Head(kmer) = STAR THEN <<WILDCARD_CODE>>
          ELSE <<Head(kmer)>>)
         \o StripAndTarget(Tail(kmer))

RECURSIVE Ems2_gen_nbrhood_3(_, _, _)
RECURSIVE Ems2_gen_nbrhood_3_loop(_, _, _, _, _)

\* each phase returns [ins, kmer]: the patterns passed to tree.insert, in
\* order, and self.kmer when the call returns
Ems2_gen_nbrhood_3_loop(current_kmer, kmer, alpha, ll, j) ==
    IF j > Len(current_kmer) THEN [ins |-> <<>>, kmer |-> kmer]
    ELSE IF j < Len(current_kmer) /\ current_kmer[j + 1] = STAR
    THEN Ems2_gen_nbrhood_3_loop(current_kmer, kmer, alpha, ll, j + 1)
    ELSE LET r == Ems2_gen_nbrhood_3(InsertAt(current_kmer, j, STAR), alpha - 1, ll)
             rest == Ems2_gen_nbrhood_3_loop(current_kmer, current_kmer, alpha, ll, j + 1)
         IN [ins |-> r.ins \o rest.ins, kmer |-> rest.kmer]

Ems2_gen_nbrhood_3(kmer, alpha, ll) ==
    IF alpha = 0
    THEN LET t == StripAndTarget(kmer) IN
         [ins |-> IF Len(t) = ll THEN <<t>> ELSE <<>>, kmer |-> kmer]
    ELSE Ems2_gen_nbrhood_3_loop(kmer, kmer, alpha, ll, 0)

RECURSIVE Ems2_gen_nbrhood_2(_, _, _, _)
RECURSIVE Ems2_gen_nbrhood_2_loop(_, _, _, _, _, _)

Ems2_gen_nbrhood_2_loop(current_kmer, kmer, sigma, alpha, ll, j) ==
    IF j >= Len(current_kmer) THEN [ins |-> <<>>, kmer |-> kmer]
    ELSE IF current_kmer[j + 1] = DASH
    THEN Ems2_gen_nbrhood_2_loop(current_kmer, kmer, sigma, alpha, ll, j + 1)
    ELSE LET t == current_kmer[j + 1]
             r == Ems2_gen_nbrhood_2(ReplaceAt(current_kmer, j, STAR), sigma - 1, alpha, ll)
             back == ReplaceAt(current_kmer, j, t)
             rest == Ems2_gen_nbrhood_2_loop(current_kmer, back, sigma, alpha, ll, j + 1)
         IN [ins |-> r.ins \o rest.ins, kmer |-> rest.kmer]

Ems2_gen_nbrhood_2(kmer, sigma, alpha, ll) ==
    IF sigma = 0 THEN Ems2_gen_nbrhood_3(kmer, alpha, ll)
    ELSE Ems2_gen_nbrhood_2_loop(kmer, kmer, sigma, alpha, ll, 0)

RECURSIVE Ems2_gen_nbrhood(_, _, _, _, _)
RECURSIVE Ems2_gen_nbrhood_loop(_, _, _, _, _, _, _)

Ems2_gen_nbrhood_loop(current_kmer, kmer, delta, sigma, alpha, ll, j) ==
    IF j >= Len(current_kmer) THEN [ins |-> <<>>, kmer |-> kmer]
    ELSE LET original_char == current_kmer[j + 1]
             r == Ems2_gen_nbrhood(ReplaceAt(current_kmer, j, DASH),
                                   delta - 1, sigma, alpha, ll)
             back == SubSeq(current_kmer, 1, j) \o <<original_char>>
                     \o SubSeq(r.kmer, j + 2, Len(r.kmer))
             rest == Ems2_gen_nbrhood_loop(current_kmer, back, delta, sigma, alpha, ll, j + 1)
         IN [ins |-> r.ins \o rest.ins, kmer |-> rest.kmer]

Ems2_gen_nbrhood(kmer, delta, sigma, alpha, ll) ==
    IF delta = 0 THEN Ems2_gen_nbrhood_2(kmer, sigma, alpha, ll)
    ELSE Ems2_gen_nbrhood_loop(kmer, kmer, delta, sigma, alpha, ll, 0)

\* Ems2Iterations with every delta range started at 0 instead of max(0, q)
RECURSIVE Ems2Iterations_FromZero(_, _, _, _, _, _)
Ems2Iterations_FromZero(m, ll, dd, q, delta, i) ==
    LET k == ll + q IN
    IF q > dd THEN <<>>
    ELSE IF k <= 0 \/ k > m THEN Ems2Iterations_FromZero(m, ll, dd, q + 1, 0, 0)
    ELSE IF delta > (dd + q) \div 2 THEN Ems2Iterations_FromZero(m, ll, dd, q + 1, 0, 0)
    ELSE IF i > m - k THEN Ems2Iterations_FromZero(m, ll, dd, q, delta + 1, 0)
    ELSE <<[q |-> q, delta |-> delta, i |-> i]>>
         \o Ems2Iterations_FromZero(m, ll, dd, q, delta, i + 1)

\* the (q, delta, i) triples of Ems2._gen_all, in loop order
RECURSIVE Ems2Iterations(_, _, _, _, _, _)
Ems2Iterations(m, ll, dd, q, delta, i) ==
    LET k == ll + q IN
    IF q > dd THEN <<>>
    ELSE IF k <= 0 \/ k > m THEN Ems2Iterations(m, ll, dd, q + 1, Max(0, q + 1), 0)
    ELSE IF delta > (dd + q) \div 2 THEN Ems2Iterations(m, ll, dd, q + 1, Max(0, q + 1), 0)
    ELSE IF i > m - k THEN Ems2Iterations(m, ll, dd, q, delta + 1, 0)
    ELSE <<[q |-> q, delta |-> delta, i |-> i]>>
         \o Ems2Iterations(m, ll, dd, q, delta, i + 1)

\* Ems2._gen_all: every pattern inserted into the tree for seq, in order
Ems2_gen_all(seq, ll, dd) ==
    LET its == Ems2Iterations(Len(seq), ll, dd, 0 - dd, Max(0, 0 - dd), 0)
    IN Flatten([n \in 1 .. Len(its) |->
          LET q == its[n].q
              delta == its[n].delta
              alpha == delta - q
              sigma == dd - alpha - delta
          IN Ems2_gen_nbrhood(Slice(seq, its[n].i, ll + q), delta, sigma, alpha, ll).ins])

RECURSIVE FastInsertAll(_, _, _)
FastInsertAll(t, ms, ll) ==
    IF ms = <<>> THEN t ELSE FastInsertAll(FastInsert(t, Head(ms), ll), Tail(ms), ll)

RECURSIVE SimpleInsertAll(_, _, _)
SimpleInsertAll(root, ms, ll) ==
    IF ms = <<>> THEN root
    ELSE SimpleInsertAll(SimpleInsert(root, Head(ms), ll), Tail(ms), ll)

----------------------------------------------------------------------------
(* Motif: 2-bit packed keys *)

RECURSIVE Pow4(_)
Pow4(n) == IF n = 0 THEN 1 ELSE 4 * Pow4(n - 1)

\* set_from_kmer shifting by j bits instead of 2 * j
RECURSIVE set_from_kmer_ShiftJ(_)
set_from_kmer_ShiftJ(x) ==
    IF x = <<>> THEN 0
    ELSE (Head(x) % 4) * (2 ^ (Len(x) - 1)) + set_from_kmer_ShiftJ(Tail(x))

\* Motif.set_from_kmer: char_code = int(x[i]) & 0b11 at bit position 2*(length-1-i)
RECURSIVE set_from_kmer(_)
set_from_kmer(x) ==
    IF x = <<>> THEN 0
    ELSE (Head(x) % 4) * Pow4(Len(x) - 1) + set_from_kmer(Tail(x))

\* get_kmer with the "& 0b11" mask left out
get_kmer_NoMask(data, k) == [i \in 1 .. k |-> data \div Pow4(k - i)]

\* Motif.get_kmer: the k unpacked codes of data
get_kmer(data, k) == [i \in 1 .. k |-> (data \div Pow4(k - i)) % 4]

----------------------------------------------------------------------------
(* Ems2p: NbdGenerator.  Each phase returns [out, x]: the keys appended to  *)
(* curr_array, in order, and self.x when the call returns                   *)

RECURSIVE Nbd_gen_nbrhood_3(_, _, _)
RECURSIVE Nbd_gen_nbrhood_3_loop(_, _, _, _, _)

Nbd_gen_nbrhood_3_loop(x, current_len, alpha, ll, j) ==
    IF j > current_len THEN [out |-> <<>>, x |-> x]
    ELSE LET old_x == x
             r == Nbd_gen_nbrhood_3(InsertAt(x, j, WILDCARD_CODE), alpha - 1, ll)
             rest == Nbd_gen_nbrhood_3_loop(old_x, current_len, alpha, ll, j + 1)
         IN [out |-> r.out \o rest.out, x |-> rest.x]

Nbd_gen_nbrhood_3(x, alpha, ll) ==
    LET current_len == Len(x) IN
    IF alpha = 0
    THEN LET motif_encoded_str == SelectSeq(x, LAMBDA c : c # DASH) IN
         [out |-> IF current_len = ll /\ Len(motif_encoded_str) = ll
                  THEN <<set_from_kmer(motif_encoded_str)>>
                  ELSE <<>>,
          x |-> x]
    ELSE Nbd_gen_nbrhood_3_loop(x, current_len, alpha, ll, 0)

RECURSIVE Nbd_gen_nbrhood_2(_, _, _, _)
RECURSIVE Nbd_gen_nbrhood_2_loop(_, _, _, _, _, _)

Nbd_gen_nbrhood_2_loop(x, current_len, sigma, alpha, ll, j) ==
    IF j >= current_len THEN [out |-> <<>>, x |-> x]
    ELSE IF x[j + 1] = DASH
    THEN Nbd_gen_nbrhood_2_loop(x, current_len, sigma, alpha, ll, j + 1)
    ELSE LET old_x == x
             r == Nbd_gen_nbrhood_2(ReplaceAt(x, j, WILDCARD_CODE), sigma - 1, alpha, ll)
             rest == Nbd_gen_nbrhood_2_loop(old_x, current_len, sigma, alpha, ll, j + 1)
         IN [out |-> r.out \o rest.out, x |-> rest.x]

Nbd_gen_nbrhood_2(x, sigma, alpha, ll) ==
    IF sigma = 0 THEN Nbd_gen_nbrhood_3(x, alpha, ll)
    ELSE Nbd_gen_nbrhood_2_loop(x, Len(x), sigma, alpha, ll, 0)

RECURSIVE Nbd_gen_nbrhood(_, _, _, _, _)
RECURSIVE Nbd_gen_nbrhood_loop(_, _, _, _, _, _, _)

Nbd_gen_nbrhood_loop(x, current_len, delta, sigma, alpha, ll, j) ==
    IF j >= current_len THEN [out |-> <<>>, x |-> x]
    ELSE LET original_char == x[j + 1]
             old_x == x
             r == Nbd_gen_nbrhood(RemoveAt(x, j), delta - 1, sigma, alpha, ll)
             back == SubSeq(old_x, 1, j) \o <<original_char>>
                     \o SubSeq(old_x, j + 1, Len(old_x))
             rest == Nbd_gen_nbrhood_loop(back, current_len, delta, sigma, alpha, ll, j + 1)
         IN [out |-> r.out \o rest.out, x |-> rest.x]

Nbd_gen_nbrhood(x, delta, sigma, alpha, ll) ==
    IF delta = 0 THEN Nbd_gen_nbrhood_2(x, sigma, alpha, ll)
    ELSE Nbd_gen_nbrhood_loop(x, Len(x), delta, sigma, alpha, ll, 0)

\* the loop over delta of NbdGenerator.generate; k is len(x) at construction
RECURSIVE Nbd_generate_loop(_, _, _, _, _)
Nbd_generate_loop(x, k, ll, dd, delta) ==
    LET q == k - ll
        alpha == delta - q
        sigma == dd - alpha - delta
    IN IF delta > (dd + q) \div 2 THEN [out |-> <<>>, x |-> x]
       ELSE LET r == Nbd_gen_nbrhood(x, delta, sigma, alpha, ll)
                rest == Nbd_generate_loop(r.x, k, ll, dd, delta + 1)
            IN [out |-> r.out \o rest.out, x |-> rest.x]

\* NbdGenerator(x).generate(): the keys appended to curr_array
Nbd_generate(x, ll, dd) ==
    Nbd_generate_loop(x, Len(x), ll, dd, Max(0, Len(x) - ll)).out

----------------------------------------------------------------------------
(* Ems2p: Worker, sort / intersect, merge *)

\* random.seed(42); random.shuffle(works): position p of the shuffled list
\* holds the element that was at position Shuffle42[n + 1][p] (n = len(works))
Shuffle42 ==
    << <<>>,
       <<1>>,
       <<2, 1>>,
       <<2, 1, 3>>,
       <<3, 2, 4, 1>>,
       <<4, 2, 3, 5, 1>>,
       <<4, 2, 3, 5, 1, 6>>,
       <<2, 4, 5, 3, 7, 1, 6>>,
       <<4, 5, 7, 8, 3, 6, 1, 2>>,
       <<4, 7, 8, 5, 9, 3, 6, 1, 2>>,
       <<8, 4, 3, 9, 6, 7, 10, 5, 1, 2>> >>

\* the (i, k) pairs of Worker.__init__ before the shuffle, in loop order
RECURSIVE WorksFrom(_, _, _, _, _)
WorksFrom(m, ll, dd, k, i) ==
    IF k > ll + dd THEN <<>>
    ELSE IF ~(k > 0 /\ k <= m) \/ i > m - k THEN WorksFrom(m, ll, dd, k + 1, 0)
    ELSE <<[i |-> i, k |-> k]>> \o WorksFrom(m, ll, dd, k, i + 1)

\* Worker.works
WorkerWorks(seq, ll, dd) ==
    LET w == WorksFrom(Len(seq), ll, dd, ll - dd, 0)
        perm == Shuffle42[Len(w) + 1]
    IN [p \in 1 .. Len(w) |-> w[perm[p]]]

\* combined_data.sort(key = data)
RECURSIVE KeyInsert(_, _)
KeyInsert(sorted, x) ==
    IF sorted = <<>> THEN <<x>>
    ELSE IF x < Head(sorted) THEN <<x>> \o sorted
    ELSE <<Head(sorted)>> \o KeyInsert(Tail(sorted), x)

RECURSIVE KeySort(_)
KeySort(lst) ==
    IF lst = <<>> THEN <<>>
    ELSE KeyInsert(KeySort(SubSeq(lst, 1, Len(lst) - 1)), lst[Len(lst)])

\* Dedupe with the comparison against last_motif_data left out
Dedupe_KeepAll(combined_data, last_motif_data) == combined_data

\* the "remove duplicates" loop
RECURSIVE Dedupe(_, _)
Dedupe(combined_data, last_motif_data) ==
    IF combined_data = <<>> THEN <<>>
    ELSE IF Head(combined_data) # last_motif_data
    THEN <<Head(combined_data)>> \o Dedupe(Tail(combined_data), Head(combined_data))
    ELSE Dedupe(Tail(combined_data), last_motif_data)

\* the two-pointer intersection loop (i, j are 0-based)
RECURSIVE MergeIntersect(_, _, _, _)
MergeIntersect(main_array_data, sorted_motifs, i, j) ==
    IF ~(i < Len(main_array_data) /\ j < Len(sorted_motifs)) THEN <<>>
    ELSE LET main_motif == main_array_data[i + 1]
             sorted_motif == sorted_motifs[j + 1]
         IN IF main_motif < sorted_motif
            THEN MergeIntersect(main_array_data, sorted_motifs, i + 1, j)
            ELSE IF main_motif > sorted_motif
            THEN MergeIntersect(main_array_data, sorted_motifs, i, j + 1)
            ELSE <<main_motif>>
                 \o MergeIntersect(main_array_data, sorted_motifs, i + 1, j + 1)

_radix_sort_and_intersect(main_array_data, curr_array, compact_count) ==
    LET combined_data == KeySort(SubSeq(curr_array, 1, compact_count))
        sorted_motifs == Dedupe(combined_data, -1)
    IN IF main_array_data = <<>> THEN sorted_motifs
       ELSE MergeIntersect(main_array_data, sorted_motifs, 0, 0)

\* Worker.process_segment(start, end)
process_segment(works, seq, main_arr, ll, dd, start, end) ==
    LET curr_array ==
            Flatten([n \in 1 .. (end - start) |->
                Nbd_generate(Slice(seq, works[start + n].i, works[start + n].k), ll, dd)])
    IN _radix_sort_and_intersect(main_arr, curr_array, Len(curr_array))

\* _merge_motifs keeping only the keys present in both lists
_merge_motifs_Intersect(a, b) == MergeIntersect(a, b, 0, 0)

\* Ems2p._merge_motifs (i, j are 0-based, c is the list built so far)
RECURSIVE _merge_motifs_loop(_, _, _, _, _)
_merge_motifs_loop(a, b, i, j, c) ==
    IF ~(i < Len(a) \/ j < Len(b)) THEN c
    ELSE LET takeA == j = Len(b) \/ (i < Len(a) /\ a[i + 1] < b[j + 1])
             takeB == i = Len(a) \/ (j < Len(b) /\ b[j + 1] < a[i + 1])
             motif_to_add == IF takeA THEN a[i + 1]
                             ELSE IF takeB THEN b[j + 1] ELSE a[i + 1]
             i2 == IF takeA THEN i + 1 ELSE IF takeB THEN i ELSE i + 1
             j2 == IF takeA THEN j ELSE j + 1
             c2 == IF c = <<>> \/ motif_to_add # c[Len(c)]
                   THEN Append(c, motif_to_add) ELSE c
         IN _merge_motifs_loop(a, b, i2, j2, c2)

_merge_motifs(a, b) == _merge_motifs_loop(a, b, 0, 0, <<>>)

\* the task list of Ems2p._gen_all: (start, end) pairs, end exclusive
RECURSIVE TaskList(_, _, _, _)
TaskList(total_load, ind_load, remaining_threads, start) ==
    IF remaining_threads = 0 THEN <<>>
    ELSE LET pos == Min(start + ind_load, total_load) IN
         (IF pos > start THEN <<[start |-> start, end |-> pos]>> ELSE <<>>)
         \o TaskList(total_load, ind_load, remaining_threads - 1, pos)

\* CeilDiv rounding down instead of up
CeilDiv_Floor(a, b) == a \div b

\* math.ceil(a / b) for a >= 0, b >= 1
CeilDiv(a, b) == (a + b - 1) \div b

\* MergeRound without the "else" branch that carries an unpaired last array
RECURSIVE MergeRound_DropOdd(_, _)
MergeRound_DropOdd(current_arrays, i) ==
    IF i > Len(current_arrays) THEN <<>>
    ELSE IF i + 1 <= Len(current_arrays)
    THEN <<_merge_motifs(current_arrays[i], current_arrays[i + 1])>>
         \o MergeRound_DropOdd(current_arrays, i + 2)
    ELSE <<>>

\* one round of the binary merging tree
RECURSIVE MergeRound(_, _)
MergeRound(current_arrays, i) ==
    IF i > Len(current_arrays) THEN <<>>
    ELSE IF i + 1 <= Len(current_arrays)
    THEN <<_merge_motifs(current_arrays[i], current_arrays[i + 1])>>
         \o MergeRound(current_arrays, i + 2)
    ELSE <<current_arrays[i]>> \o MergeRound(current_arrays, i + 2)

RECURSIVE MergeTree(_)
MergeTree(current_arrays) ==
    IF Len(current_arrays) > 1 THEN MergeTree(MergeRound(current_arrays, 1))
    ELSE current_arrays

\* the per-shard results of pool.starmap, in task order
ShardResults(seq, main_arr, ll, dd, threads) ==
    LET works == WorkerWorks(seq, ll, dd)
        total_load == Len(works)
        tasks == TaskList(total_load, CeilDiv(total_load, threads), threads, 0)
    IN [t \in 1 .. Len(tasks) |->
          process_segment(works, seq, main_arr, ll, dd, tasks[t].start, tasks[t].end)]

\* Ems2p._gen_all: the new value of self.main_array
Ems2p_gen_all(seq, main_arr, ll, dd, threads) ==
    LET results == ShardResults(seq, main_arr, ll, dd, threads)
        current_arrays == MergeTree(SelectSeq(results, LAMBDA r : r # <<>>))
    IN IF current_arrays # <<>> THEN current_arrays[1]
       ELSE IF main_arr = <<>> THEN <<>>
       ELSE main_arr

----------------------------------------------------------------------------
(* MotifSet: k-way merge over a heap.  The heap is modelled as the set of   *)
(* its tuples (data, desc_id, element_idx): heappop returns the least one   *)

\* MotifSet.__init__: last_popped_motif = Motif(), whose data is 0
MotifSetNew ==
    [heap |-> {}, data_desc |-> <<>>, desc_pos |-> 0, last_popped_motif |-> 0]

\* tuple comparison of heapq
HeapTupleLess(t, u) ==
    \/ t[1] < u[1]
    \/ t[1] = u[1] /\ t[2] < u[2]
    \/ t[1] = u[1] /\ t[2] = u[2] /\ t[3] < u[3]

\* the tuple heapq.heappop returns
HeapTop(heap) == CHOOSE t \in heap : \A u \in heap \ {t} : HeapTupleLess(t, u)

\* MotifSet.init_add(buffer, start_pos, end_pos)
init_add(ms, buffer, start_pos, end_pos) ==
    IF start_pos < end_pos
    THEN [ms EXCEPT
            !.data_desc = Append(@, [buffer |-> buffer, current_pos |-> start_pos,
                                     end_pos |-> end_pos]),
            !.heap = @ \cup {<<buffer[start_pos + 1], ms.desc_pos, start_pos>>},
            !.desc_pos = @ + 1]
    ELSE ms

\* MotifSet.clear()
clear(ms) ==
    [heap |-> {}, data_desc |-> <<>>, desc_pos |-> 0, last_popped_motif |-> 0]

\* MotifSet.get_min(motif): returns [ms, ret, motif]; motif is what was
\* written into the argument (-1: nothing written)
RECURSIVE get_min(_)
get_min(ms) ==
    IF ms.heap = {} THEN [ms |-> ms, ret |-> FALSE, motif |-> -1]
    ELSE LET top == HeapTop(ms.heap)
             desc_id == top[2]
             element_idx == top[3]
             desc == ms.data_desc[desc_id + 1]
             extracted_motif == desc.buffer[element_idx + 1]
             current_pos == desc.current_pos + 1
             popped == ms.heap \ {top}
             heap2 == IF current_pos < desc.end_pos
                      THEN popped \cup {<<desc.buffer[current_pos + 1], desc_id, current_pos>>}
                      ELSE popped
             ms2 == [ms EXCEPT !.heap = heap2,
                               !.data_desc[desc_id + 1].current_pos = current_pos]
         IN IF extracted_motif # ms.last_popped_motif
            THEN [ms |-> [ms2 EXCEPT !.last_popped_motif = extracted_motif],
                  ret |-> TRUE, motif |-> extracted_motif]
            ELSE get_min(ms2)

\* the calls recorded since the set was fresh or cleared
NoLog == [added |-> {}, popped |-> <<>>, falses |-> 0, adds |-> 0, clears |-> 0]

----------------------------------------------------------------------------
(* SpecTrie: arbitrary insert / intersect calls, applied identically to a   *)
(* MotifTreeFast pair and a MotifTreeSimple pair (main = A, tmp = B)        *)

NoOp == [kind |-> "none", tree |-> "-", motif |-> <<>>]

\* the argument record of SpecCall before any call
NoArg == [x |-> <<>>, ll |-> 0, dd |-> 0, a |-> <<>>, b |-> <<>>,
          lists |-> <<>>, total_load |-> 0, T |-> 0]

\* the engines of main.py (-s 1, 2, 2m, 2p), in the order they are run
Engines == <<"ems1", "ems2", "ems2m", "ems2p">>
EngineSet == ToSet(Engines)

InitTrie ==
    /\ max_depth \in 1 .. MaxDepth
    /\ fastA = NewFastTree
    /\ fastB = NewFastTree
    /\ simpA = NewSimpleTree
    /\ simpB = NewSimpleTree
    /\ nOps = 0
    /\ nInsA = 0
    /\ nInsB = 0
    /\ nIntersect = 0
    /\ lastOp = NoOp
    /\ l = max_depth
    /\ d = 0
    /\ reads = <<>>
    /\ num_threads = 1
    /\ idx = [e \in EngineSet |-> 0]
    /\ returned = [e \in EngineSet |-> FALSE]
    /\ motifs = [e \in EngineSet |-> <<>>]
    /\ motif_counts = <<>>
    /\ last_seq_match = <<>>
    /\ main_array = <<>>
    /\ call_fn = "none"
    /\ call_arg = NoArg
    /\ call_out = <<>>
    /\ mset = MotifSetNew
    /\ ms_log = NoLog

\* main.insert(m) on both variants
InsertA(m) ==
    /\ nInsA < MaxInsA
    /\ nInsA' = nInsA + 1
    /\ fastA' = FastInsert(fastA, m, max_depth)
    /\ simpA' = SimpleInsert(simpA, m, max_depth)
    /\ nOps' = nOps + 1
    /\ lastOp' = [kind |-> "insert", tree |-> "A", motif |-> m]
    /\ UNCHANGED <<max_depth, unitVars, setVars, fastB, simpB, nInsB, nIntersect, searchVars>>

\* tmp.insert(m) on both variants
InsertB(m) ==
    /\ nInsB < MaxInsB
    /\ nInsB' = nInsB + 1
    /\ fastB' = FastInsert(fastB, m, max_depth)
    /\ simpB' = SimpleInsert(simpB, m, max_depth)
    /\ nOps' = nOps + 1
    /\ lastOp' = [kind |-> "insert", tree |-> "B", motif |-> m]
    /\ UNCHANGED <<max_depth, unitVars, setVars, fastA, simpA, nInsA, nIntersect, searchVars>>

\* main.intersect(tmp) on both variants
Intersect ==
    /\ nIntersect < MaxIntersects
    /\ fastA' = FastIntersect(fastA, fastB, max_depth)
    /\ simpA' = SimpleIntersect(simpA, simpB, max_depth)
    /\ nOps' = nOps + 1
    /\ nIntersect' = nIntersect + 1
    /\ lastOp' = [kind |-> "intersect", tree |-> "A", motif |-> <<>>]
    /\ UNCHANGED <<max_depth, unitVars, setVars, fastB, simpB, nInsA, nInsB, searchVars>>

NextTrie ==
    \/ \E m \in Patterns(max_depth) : InsertA(m)
    \/ \E m \in Patterns(max_depth) : InsertB(m)
    \/ Intersect

SpecTrie == InitTrie /\ [][NextTrie]_vars

----------------------------------------------------------------------------
(* Spec: search() of the four engines on one input, one engine after the    *)
(* other; one step per iteration of the engine's loop over the sequences    *)

Strings(maxLen, maxLetter) ==
    UNION {[1 .. n -> 0 .. maxLetter] : n \in 1 .. maxLen}

Inputs ==
    UNION {[1 .. n -> Strings(MaxSeqLen, MaxSeqLetter)] : n \in 1 .. MaxReads}

Init ==
    /\ l \in 1 .. MaxL
    /\ d \in 0 .. MaxD
    /\ reads \in Inputs
    /\ num_threads \in 1 .. MaxThreads
    /\ idx = [e \in EngineSet |-> 0]
    /\ returned = [e \in EngineSet |-> FALSE]
    /\ motifs = [e \in EngineSet |-> <<>>]
    /\ motif_counts = <<>>
    /\ last_seq_match = <<>>
    /\ main_array = <<>>
    /\ max_depth = l
    /\ fastA = NewFastTree
    /\ fastB = NewFastTree
    /\ simpA = NewSimpleTree
    /\ simpB = NewSimpleTree
    /\ nOps = 0
    /\ nInsA = 0
    /\ nInsB = 0
    /\ nIntersect = 0
    /\ lastOp = NoOp
    /\ call_fn = "none"
    /\ call_arg = NoArg
    /\ call_out = <<>>
    /\ mset = MotifSetNew
    /\ ms_log = NoLog

\* engine e is the one whose search() is executing
Running(e) ==
    /\ ~returned[e]
    /\ \A n \in 1 .. Len(Engines) :
          Engines[n] = e => \A p \in 1 .. (n - 1) : returned[Engines[p]]

\* Ems1Iter with the count of a candidate set to 1 instead of incremented
Ems1Iter_CountReset ==
    /\ Running("ems1")
    /\ idx["ems1"] < Len(reads)
    /\ LET seq == reads[idx["ems1"] + 1]
           current_seq_id == idx["ems1"] + 1
           sequence_candidates == Ems1Candidates(seq, l, d)
           hit == {c \in sequence_candidates :
                      DictGet(last_seq_match, c, 0) # current_seq_id}
           keys == DOMAIN motif_counts \cup hit
       IN /\ last_seq_match' =
                [c \in keys |-> IF c \in hit THEN current_seq_id
                                ELSE last_seq_match[c]]
          /\ motif_counts' =
                [c \in keys |-> IF c \in hit THEN 1 ELSE motif_counts[c]]
    /\ idx' = [idx EXCEPT !["ems1"] = @ + 1]
    /\ UNCHANGED <<max_depth, unitVars, setVars, treeVars, callVars, inputVars, returned, motifs, main_array>>

\* Ems1.search: one iteration of "for i, seq in enumerate(self.reads)"
Ems1Iter ==
    /\ Running("ems1")
    /\ idx["ems1"] < Len(reads)
    /\ LET seq == reads[idx["ems1"] + 1]
           current_seq_id == idx["ems1"] + 1
           sequence_candidates == Ems1Candidates(seq, l, d)
           hit == {c \in sequence_candidates :
                      DictGet(last_seq_match, c, 0) # current_seq_id}
           keys == DOMAIN motif_counts \cup hit
       IN /\ last_seq_match' =
                [c \in keys |-> IF c \in hit THEN current_seq_id
                                ELSE last_seq_match[c]]
          /\ motif_counts' =
                [c \in keys |-> IF c \in hit THEN DictGet(motif_counts, c, 0) + 1
                                ELSE motif_counts[c]]
    /\ idx' = [idx EXCEPT !["ems1"] = @ + 1]
    /\ UNCHANGED <<max_depth, unitVars, setVars, treeVars, callVars, inputVars, returned, motifs, main_array>>

\* Ems1.search: the selection and sort after the loop
Ems1Finish ==
    /\ Running("ems1")
    /\ idx["ems1"] = Len(reads)
    /\ motifs' = [motifs EXCEPT !["ems1"] =
          SortList(SetToList({m \in DOMAIN motif_counts :
                                 motif_counts[m] = Len(reads)}))]
    /\ returned' = [returned EXCEPT !["ems1"] = TRUE]
    /\ UNCHANGED <<max_depth, unitVars, setVars, treeVars, callVars, inputVars, idx,
                   motif_counts, last_seq_match, main_array>>

\* "not self.main_tree.root['children']": the children list is empty
FastChildrenEmpty(t) == Cardinality(DOMAIN t.heap[t.root].children) = 0
SimpleChildrenEmpty(root) == Len(root.children) = 0

\* Ems2.search: main_tree built from sequence 0
Ems2First(v) ==
    /\ Running(v)
    /\ idx[v] = 0
    /\ IF v = "ems2"
       THEN /\ fastA' = FastInsertAll(NewFastTree, Ems2_gen_all(reads[1], l, d), l)
            /\ UNCHANGED <<fastB, simpA, simpB>>
       ELSE /\ simpA' = SimpleInsertAll(NewSimpleTree, Ems2_gen_all(reads[1], l, d), l)
            /\ UNCHANGED <<fastA, fastB, simpB>>
    /\ idx' = [idx EXCEPT ![v] = 1]
    /\ UNCHANGED <<max_depth, unitVars, setVars, callVars, inputVars, returned, motifs,
                   motif_counts, last_seq_match, main_array>>

\* Ems2.search: one iteration of "for i in range(1, len(self.reads))"
Ems2Iter(v) ==
    /\ Running(v)
    /\ idx[v] >= 1
    /\ idx[v] < Len(reads)
    /\ LET ins == Ems2_gen_all(reads[idx[v] + 1], l, d) IN
       IF v = "ems2"
       THEN LET tmp_tree == FastInsertAll(NewFastTree, ins, l)
                main == FastIntersect(fastA, tmp_tree, l)
            IN /\ fastB' = tmp_tree
               /\ fastA' = main
               /\ returned' = [returned EXCEPT ![v] = FastChildrenEmpty(main)]
               /\ UNCHANGED <<simpA, simpB>>
       ELSE LET tmp_tree == SimpleInsertAll(NewSimpleTree, ins, l)
                main == SimpleIntersect(simpA, tmp_tree, l)
            IN /\ simpB' = tmp_tree
               /\ simpA' = main
               /\ returned' = [returned EXCEPT ![v] = SimpleChildrenEmpty(main)]
               /\ UNCHANGED <<fastA, fastB>>
    /\ motifs' = IF returned'[v] THEN [motifs EXCEPT ![v] = <<>>] ELSE motifs
    /\ idx' = [idx EXCEPT ![v] = @ + 1]
    /\ UNCHANGED <<max_depth, unitVars, setVars, callVars, inputVars, motif_counts, last_seq_match, main_array>>

\* Ems2.search: traverse and sort after the loop
Ems2Finish(v) ==
    /\ Running(v)
    /\ idx[v] >= 1
    /\ idx[v] = Len(reads)
    /\ motifs' = [motifs EXCEPT ![v] =
          SortList(IF v = "ems2" THEN FastTraverse(fastA, l)
                   ELSE SimpleTraverse(simpA, l))]
    /\ returned' = [returned EXCEPT ![v] = TRUE]
    /\ UNCHANGED <<max_depth, unitVars, setVars, treeVars, callVars, inputVars, idx,
                   motif_counts, last_seq_match, main_array>>

\* Ems2p.search: one iteration of "for i, seq in enumerate(self.reads)"
Ems2pIter ==
    /\ Running("ems2p")
    /\ idx["ems2p"] < Len(reads)
    /\ main_array' = Ems2p_gen_all(reads[idx["ems2p"] + 1], main_array, l, d, num_threads)
    /\ returned' = [returned EXCEPT !["ems2p"] = (main_array' = <<>>)]
    /\ motifs' = IF main_array' = <<>> THEN [motifs EXCEPT !["ems2p"] = <<>>] ELSE motifs
    /\ idx' = [idx EXCEPT !["ems2p"] = @ + 1]
    /\ UNCHANGED <<max_depth, unitVars, setVars, treeVars, callVars, inputVars, motif_counts, last_seq_match>>

\* Ems2p.search: decode and sort after the loop
Ems2pFinish ==
    /\ Running("ems2p")
    /\ idx["ems2p"] = Len(reads)
    /\ motifs' = [motifs EXCEPT !["ems2p"] =
          SortList([n \in 1 .. Len(main_array) |-> get_kmer(main_array[n], l)])]
    /\ returned' = [returned EXCEPT !["ems2p"] = TRUE]
    /\ UNCHANGED <<max_depth, unitVars, setVars, treeVars, callVars, inputVars, idx,
                   motif_counts, last_seq_match, main_array>>

Next ==
    \/ Ems1Iter
    \/ Ems1Finish
    \/ \E v \in {"ems2", "ems2m"} : Ems2First(v)
    \/ \E v \in {"ems2", "ems2m"} : Ems2Iter(v)
    \/ \E v \in {"ems2", "ems2m"} : Ems2Finish(v)
    \/ Ems2pIter
    \/ Ems2pFinish

Spec == Init /\ [][Next]_vars

----------------------------------------------------------------------------
(* SpecCall: one call of one of the routines the engines are built from,    *)
(* on arguments drawn from bounded sets                                     *)

NbrMaxL == 2        \* largest l of a neighbourhood call
NbrMaxD == 2        \* largest d of a neighbourhood call
NbrMaxLetter == 2   \* largest letter code of the kmer of a neighbourhood call

\* the kmers the engines hand to their enumerators: max(1, l-d) <= k <= l+d
Kmers(ll, dd) ==
    {x \in Strings(ll + dd, NbrMaxLetter) : Len(x) >= Max(1, ll - dd)}

\* Ems2KmerPatterns with the "+ 1" of the delta range left out
Ems2KmerPatterns_ShortRange(x, ll, dd) ==
    LET q == Len(x) - ll
        lo == Max(0, q)
        hi == ((dd + q) \div 2) - 1
    IN Flatten([n \in 1 .. (hi - lo + 1) |->
          LET delta == lo + n - 1
              alpha == delta - q
              sigma == dd - alpha - delta
          IN Ems2_gen_nbrhood(x, delta, sigma, alpha, ll).ins])

\* Ems2._gen_all, the body of "for q": every pattern inserted for one kmer x
Ems2KmerPatterns(x, ll, dd) ==
    LET q == Len(x) - ll
        lo == Max(0, q)
        hi == (dd + q) \div 2
    IN Flatten([n \in 1 .. (hi - lo + 1) |->
          LET delta == lo + n - 1
              alpha == delta - q
              sigma == dd - alpha - delta
          IN Ems2_gen_nbrhood(x, delta, sigma, alpha, ll).ins])

InitCall == InitTrie /\ max_depth = 1

\* one kmer through Ems2's enumerator
CallEms2Kmer ==
    /\ call_fn = "none"
    /\ \E ll \in 1 .. NbrMaxL, dd \in 0 .. NbrMaxD :
      \E x \in Kmers(ll, dd) :
        /\ call_fn' = "Ems2._gen_nbrhood"
        /\ call_arg' = [NoArg EXCEPT !.x = x, !.ll = ll, !.dd = dd]
        /\ call_out' = Ems2KmerPatterns(x, ll, dd)
        /\ UNCHANGED <<max_depth, treeVars, callVars, searchVars, setVars>>

\* Ems1._generate_neighborhood(x, d, l, S) on an empty set S
CallEms1Neighborhood ==
    /\ call_fn = "none"
    /\ \E ll \in 1 .. NbrMaxL, dd \in 0 .. NbrMaxD :
      \E x \in Kmers(ll, dd) :
        /\ call_fn' = "Ems1._generate_neighborhood"
        /\ call_arg' = [NoArg EXCEPT !.x = x, !.ll = ll, !.dd = dd]
        /\ call_out' = _generate_neighborhood(x, dd, ll)
        /\ UNCHANGED <<max_depth, treeVars, callVars, searchVars, setVars>>

\* NbdGenerator(x).generate() on an empty curr_array
CallNbdGenerate ==
    /\ call_fn = "none"
    /\ \E ll \in 1 .. NbrMaxL, dd \in 0 .. NbrMaxD :
      \E x \in Kmers(ll, dd) :
        /\ call_fn' = "NbdGenerator.generate"
        /\ call_arg' = [NoArg EXCEPT !.x = x, !.ll = ll, !.dd = dd]
        /\ call_out' = Nbd_generate(x, ll, dd)
        /\ UNCHANGED <<max_depth, treeVars, callVars, searchVars, setVars>>

PackMaxL == 3        \* largest length of a packed string
CallMaxLoad == 6     \* largest total_load of a task split
CallMaxThreads == 4  \* largest num_threads of a task split
MergeMaxKey == 2     \* largest key of a merged list
MergeMaxLists == 3   \* largest number of lists handed to the merging tree

\* the lists of keys that are strictly ascending
AscLists ==
    {s \in UNION {[1 .. n -> 0 .. MergeMaxKey] : n \in 0 .. (MergeMaxKey + 1)} :
        \A n \in 1 .. (Len(s) - 1) : s[n] < s[n + 1]}

\* Motif(s).data, Motif(t).data and Motif(s).get_kmer(len(s))
CallPackUnpack ==
    /\ call_fn = "none"
    /\ \E n \in 1 .. PackMaxL :
      \E s \in [1 .. n -> Letters], t \in [1 .. n -> Letters] :
        /\ call_fn' = "Motif.get_kmer"
        /\ call_arg' = [NoArg EXCEPT !.x = s, !.a = t, !.ll = n]
        /\ call_out' = [data |-> set_from_kmer(s),
                        other |-> set_from_kmer(t),
                        kmer |-> get_kmer(set_from_kmer(s), n)]
        /\ UNCHANGED <<max_depth, treeVars, callVars, searchVars, setVars>>

\* the task list Ems2p._gen_all builds for total_load work items
CallTaskList ==
    /\ call_fn = "none"
    /\ \E total_load \in 0 .. CallMaxLoad, T \in 1 .. CallMaxThreads :
        /\ call_fn' = "Ems2p._gen_all.tasks"
        /\ call_arg' = [NoArg EXCEPT !.total_load = total_load, !.T = T]
        /\ call_out' = TaskList(total_load, CeilDiv(total_load, T), T, 0)
        /\ UNCHANGED <<max_depth, treeVars, callVars, searchVars, setVars>>

\* Ems2p._merge_motifs(a, b)
CallMergeMotifs ==
    /\ call_fn = "none"
    /\ \E a \in AscLists, b \in AscLists :
        /\ call_fn' = "Ems2p._merge_motifs"
        /\ call_arg' = [NoArg EXCEPT !.a = a, !.b = b]
        /\ call_out' = _merge_motifs(a, b)
        /\ UNCHANGED <<max_depth, treeVars, callVars, searchVars, setVars>>

\* the binary merging loop of Ems2p._gen_all on n >= 1 lists
CallMergeTree ==
    /\ call_fn = "none"
    /\ \E n \in 1 .. MergeMaxLists :
      \E lists \in [1 .. n -> AscLists] :
        /\ call_fn' = "Ems2p._gen_all.merge"
        /\ call_arg' = [NoArg EXCEPT !.lists = lists]
        /\ call_out' = MergeTree(lists)
        /\ UNCHANGED <<max_depth, treeVars, callVars, searchVars, setVars>>

BudgetMaxSeqLen == 5   \* largest sequence length of an edit-budget call

\* Ems2._gen_all: the (k, delta, sigma, alpha) of every _gen_nbrhood call
Ems2Budgets(m, ll, dd) ==
    LET its == Ems2Iterations(m, ll, dd, 0 - dd, Max(0, 0 - dd), 0)
    IN [n \in 1 .. Len(its) |->
          LET q == its[n].q
              delta == its[n].delta
              alpha == delta - q
              sigma == dd - alpha - delta
          IN [k |-> ll + q, delta |-> delta, sigma |-> sigma, alpha |-> alpha]]

\* NbdGenerator.generate for a kmer of length k: the (k, delta, sigma, alpha)
\* of every _gen_nbrhood call
NbdBudgets(k, ll, dd) ==
    LET q == k - ll
        lo == Max(0, q)
        hi == (dd + q) \div 2
    IN [n \in 1 .. (hi - lo + 1) |->
          LET delta == lo + n - 1
              alpha == delta - q
              sigma == dd - alpha - delta
          IN [k |-> k, delta |-> delta, sigma |-> sigma, alpha |-> alpha]]

\* the edit budgets both drivers go through for a sequence of length m
CallEditBudget ==
    /\ call_fn = "none"
    /\ \E ll \in 1 .. NbrMaxL, dd \in 0 .. NbrMaxD, m \in 0 .. BudgetMaxSeqLen :
        /\ call_fn' = "_gen_all.budgets"
        /\ call_arg' = [NoArg EXCEPT !.ll = ll, !.dd = dd, !.total_load = m]
        /\ call_out' =
              LET works == WorksFrom(m, ll, dd, ll - dd, 0)
              IN [ems2 |-> Ems2Budgets(m, ll, dd),
                  works |-> works,
                  nbd |-> Flatten([w \in 1 .. Len(works) |->
                                      NbdBudgets(works[w].k, ll, dd)])]
        /\ UNCHANGED <<max_depth, treeVars, callVars, searchVars, setVars>>

\* one kmer through the deletion phase of both enumerators with a budget the
\* drivers go through (delta = 0 enters the substitution phase at once,
\* delta = sigma = 0 the insertion phase), and through generate()
CallPhases ==
    /\ call_fn = "none"
    /\ \E ll \in 1 .. NbrMaxL, dd \in 0 .. NbrMaxD :
      \E x \in Kmers(ll, dd) :
        \E b \in ToSet(NbdBudgets(Len(x), ll, dd)) :
          /\ call_fn' = "_gen_nbrhood"
          /\ call_arg' = [NoArg EXCEPT !.x = x, !.ll = ll, !.dd = dd, !.a = b]
          /\ call_out' =
                [kmer |-> Ems2_gen_nbrhood(x, b.delta, b.sigma, b.alpha, ll).kmer,
                 x |-> Nbd_gen_nbrhood(x, b.delta, b.sigma, b.alpha, ll).x,
                 generate |-> Nbd_generate_loop(x, Len(x), ll, dd,
                                                Max(0, Len(x) - ll)).x]
          /\ UNCHANGED <<max_depth, treeVars, callVars, searchVars, setVars>>

NextCall ==
    \/ CallEditBudget
    \/ CallPhases
    \/ CallEms2Kmer
    \/ CallEms1Neighborhood
    \/ CallNbdGenerate
    \/ CallPackUnpack
    \/ CallTaskList
    \/ CallMergeMotifs
    \/ CallMergeTree

SpecCall == InitCall /\ [][NextCall]_vars

----------------------------------------------------------------------------
(* SpecSet: a MotifSet receives init_add calls, is then drained by get_min  *)
(* calls, and may be cleared and used again                                 *)

MSMaxAdds == 2     \* largest number of init_add calls between two clears
MSMaxFalse == 2    \* largest number of get_min calls that return False
MSMaxClears == 1   \* largest number of clear calls

InitSet == InitTrie /\ max_depth = 1

\* init_add(buffer, start_pos, end_pos), before any get_min
InitAdd ==
    /\ ms_log.adds < MSMaxAdds
    /\ ms_log.popped = <<>>
    /\ ms_log.falses = 0
    /\ \E buffer \in AscLists :
         \E start_pos \in 0 .. Len(buffer), end_pos \in 0 .. Len(buffer) :
           /\ mset' = init_add(mset, buffer, start_pos, end_pos)
           /\ ms_log' = [ms_log EXCEPT
                           !.adds = @ + 1,
                           !.added = @ \cup {buffer[n] : n \in (start_pos + 1) .. end_pos}]
    /\ UNCHANGED <<max_depth, treeVars, callVars, searchVars, unitVars>>

\* get_min(motif)
GetMin ==
    /\ ms_log.falses < MSMaxFalse
    /\ \E r \in {get_min(mset)} :
          /\ mset' = r.ms
          /\ ms_log' = IF r.ret
                       THEN [ms_log EXCEPT !.popped = Append(@, r.motif)]
                       ELSE [ms_log EXCEPT !.falses = @ + 1]
    /\ UNCHANGED <<max_depth, treeVars, callVars, searchVars, unitVars>>

\* clear()
Clear ==
    /\ ms_log.clears < MSMaxClears
    /\ mset' = clear(mset)
    /\ ms_log' = [NoLog EXCEPT !.clears = ms_log.clears + 1]
    /\ UNCHANGED <<max_depth, treeVars, callVars, searchVars, unitVars>>

NextSet ==
    \/ InitAdd
    \/ GetMin
    \/ Clear

SpecSet == InitSet /\ [][NextSet]_vars

----------------------------------------------------------------------------
(* Represented sets *)

\* the strings traverse() leaves in motifs
RepFast(t) == ToSet(FastTraverse(t, max_depth))
RepSimple(root) == ToSet(SimpleTraverse(root, max_depth))

\* the concrete strings of a pattern: each WILDCARD replaced by any letter
Expand(m) ==
    {y \in [1 .. Len(m) -> Letters] :
        \A i \in 1 .. Len(m) : m[i] = WILDCARD_CODE \/ y[i] = m[i]}

----------------------------------------------------------------------------
(* Claims on the tries (checked under SpecTrie) *)

\* a trie call was made in this step
TrieCall(kind) == nOps' = nOps + 1 /\ lastOp'.kind = kind

\* node ids reachable from the root of a fast tree within k edges
RECURSIVE FastReach(_, _, _)
FastReach(h, nodes, k) ==
    IF k = 0 THEN nodes
    ELSE FastReach(h,
           nodes \cup ({h[n].children[j] : n \in nodes, j \in Letters} \ {0}),
           k - 1)

FastNodes(t) == FastReach(t.heap, {t.root}, max_depth)

\* C7: insert adds and never removes.  For both variants and a trie built by
\* insert calls only, after insert(m) the represented set equals the set
\* represented before united with every concrete instance of m.
C7_InsertAddsNeverRemoves ==
    [][ (TrieCall("insert") /\ (lastOp'.tree = "B" \/ nIntersect = 0)) =>
          IF lastOp'.tree = "A"
          THEN /\ RepFast(fastA') = RepFast(fastA) \cup Expand(lastOp'.motif)
               /\ RepSimple(simpA') = RepSimple(simpA) \cup Expand(lastOp'.motif)
          ELSE /\ RepFast(fastB') = RepFast(fastB) \cup Expand(lastOp'.motif)
               /\ RepSimple(simpB') = RepSimple(simpB) \cup Expand(lastOp'.motif)
      ]_vars

\* C8: intersection is exact.  For both variants, after A.intersect(B) the set
\* represented by A is the set it represented before intersected with the set
\* represented by B.
C8_IntersectExact ==
    [][ TrieCall("intersect") =>
          /\ RepFast(fastA') = RepFast(fastA) \cap RepFast(fastB)
          /\ RepSimple(simpA') = RepSimple(simpA) \cap RepSimple(simpB)
      ]_vars

FastStructureOK(t) ==
    \A n \in FastNodes(t) :
        /\ \A j \in Letters :
              t.heap[n].children[j] # 0 =>
                  j \in t.heap[t.heap[n].children[j]].sharing_info
        /\ \A j, k \in Letters :
              LET cj == t.heap[n].children[j]
                  ck == t.heap[n].children[k]
              IN (cj # 0 /\ ck # 0 /\ cj # ck) =>
                     t.heap[cj].sharing_info \cap t.heap[ck].sharing_info = {}

\* C9: fast-trie structural invariant.  In every reachable MotifTreeFast, each
\* non-null child slot j points to a child whose sharing_info has bit j, and
\* the masks of distinct physical children of one parent are pairwise disjoint.
C9_FastStructuralInvariant ==
    FastStructureOK(fastA) /\ FastStructureOK(fastB)

\* C10: Simple and Fast agree.  After the same calls, traverse() of the two
\* variants yields the same set of strings.
C10_SimpleFastAgree ==
    /\ RepFast(fastA) = RepSimple(simpA)
    /\ RepFast(fastB) = RepSimple(simpB)

\* the children of every node at or below node have non-empty, pairwise
\* disjoint masks
RECURSIVE SiblingsDisjoint(_)
SiblingsDisjoint(node) ==
    /\ \A i \in 1 .. Len(node.children) :
          /\ node.children[i].sharing_info # {}
          /\ \A k \in (i + 1) .. Len(node.children) :
                node.children[i].sharing_info
                   \cap node.children[k].sharing_info = {}
    /\ \A i \in 1 .. Len(node.children) : SiblingsDisjoint(node.children[i])

\* C23: in every MotifTreeSimple reached by insert and intersect calls, the
\* masks of the children of any one node are non-zero and pairwise disjoint,
\* and traverse emits no string twice.
C23_SimpleSiblingsDisjoint ==
    /\ SiblingsDisjoint(simpA)
    /\ SiblingsDisjoint(simpB)
    /\ \A root \in {simpA, simpB} :
          \A lst \in {SimpleTraverse(root, max_depth)} :
             Len(lst) = Cardinality(ToSet(lst))

\* after an intersect call the main tree has a node with two children, and
\* the tmp tree, built by two inserts, has one too
C23_Witness ==
    /\ nIntersect = 1
    /\ lastOp.kind = "intersect"
    /\ max_depth = 2
    /\ \E i \in 1 .. Len(simpA.children) : Len(simpA.children[i].children) = 2
    /\ \E i \in 1 .. Len(simpB.children) : Len(simpB.children[i].children) = 2

----------------------------------------------------------------------------
(* Reference notions for the search claims *)

\* utils.edist: Levenshtein distance (the recurrence the table d[i][j] solves)
RECURSIVE edist(_, _)
edist(s1, s2) ==
    IF s1 = <<>> THEN Len(s2)
    ELSE IF s2 = <<>> THEN Len(s1)
    ELSE LET a == SubSeq(s1, 1, Len(s1) - 1)
             b == SubSeq(s2, 1, Len(s2) - 1)
             cost == IF s1[Len(s1)] = s2[Len(s2)] THEN 0 ELSE 1
         IN Min(Min(edist(a, s2) + 1, edist(s1, b) + 1), edist(a, b) + cost)

\* some substring of seq is within edit distance d of M
HasMatch(M, seq) ==
    \E k \in 1 .. Len(seq) : \E i \in 0 .. (Len(seq) - k) :
        edist(Slice(seq, i, k), M) <= d

\* the motifs of the problem statement
TrueMotifs ==
    {M \in [1 .. l -> Letters] : \A n \in 1 .. Len(reads) : HasMatch(M, reads[n])}

\* the engine's loop processes one more sequence in this step
SeqStep(e) == idx'[e] = idx[e] + 1

\* the main trie's root has no child
RootNoChild(v) ==
    IF v = "ems2" THEN _empty_node(fastA.heap, fastA.root)
    ELSE simpA.children = <<>>

\* the keys the shards of Ems2p._gen_all emit for seq, before any intersection
ShardKeys(seq) ==
    LET works == WorkerWorks(seq, l, d)
        tasks == TaskList(Len(works), CeilDiv(Len(works), num_threads), num_threads, 0)
    IN UNION {UNION {ToSet(Nbd_generate(Slice(seq, works[j].i, works[j].k), l, d)) :
                     j \in (tasks[t].start + 1) .. tasks[t].end} :
              t \in 1 .. Len(tasks)}

StrictlyAscending(keys) ==
    \A n \in 1 .. (Len(keys) - 1) : keys[n] < keys[n + 1]

----------------------------------------------------------------------------
(* Claims on search() (checked under Spec) *)

\* C1: completeness.  For each engine, every length-l string M such that every
\* sequence has a substring within edit distance d of M is in motifs when
\* search() has returned.
C1_Completeness ==
    \A e \in EngineSet : returned[e] => TrueMotifs \subseteq ToSet(motifs[e])

\* C2: soundness.  For each engine, every string in motifs after search() is
\* within edit distance d of some substring of every input sequence.
C2_Soundness ==
    \A e \in EngineSet : returned[e] => ToSet(motifs[e]) \subseteq TrueMotifs

\* C3: cross-engine equivalence.  On the same (l, d, sequences) the four
\* engines leave the same list in motifs.
C3_CrossEngineEquivalence ==
    (\A e \in EngineSet : returned[e]) =>
        \A e1, e2 \in EngineSet : motifs[e1] = motifs[e2]

\* C4: early termination in the trie engines.  For both tree variants, once the
\* main root has no child after the intersection for a sequence i >= 1, no tmp
\* tree is built for a later sequence and search returns with motifs empty.
C4_TrieEarlyTermination ==
    [][ \A v \in {"ems2", "ems2m"} :
          /\ (SeqStep(v) /\ idx[v] >= 2) => ~RootNoChild(v)
          /\ (SeqStep(v) /\ idx[v] >= 1 /\ RootNoChild(v)' /\ idx'[v] < Len(reads))
                => (returned'[v] /\ motifs'[v] = <<>>)
      ]_vars

\* C5: early termination in V2P.  If the keys of sequence i >= 1 have nothing in
\* common with the main_array left by the earlier sequences, main_array is empty
\* after that sequence and search returns with motifs empty, so that no later
\* sequence is processed.
C5_ParallelEarlyTermination ==
    [][ (/\ SeqStep("ems2p")
         /\ idx["ems2p"] >= 1
         /\ ShardKeys(reads[idx["ems2p"] + 1]) \cap ToSet(main_array) = {})
        => (/\ main_array' = <<>>
            /\ returned'["ems2p"]
            /\ motifs'["ems2p"] = <<>>)
      ]_vars

\* C6: V2P per-sequence step.  After _gen_all for sequence i >= 1 with a
\* non-empty prior main_array, main_array holds exactly the prior keys that the
\* shards emitted; for i = 0 exactly the emitted keys; strictly ascending in
\* both cases.
C6_ParallelSequenceStep ==
    [][ SeqStep("ems2p") =>
          LET emitted == ShardKeys(reads[idx["ems2p"] + 1]) IN
          /\ idx["ems2p"] = 0 => ToSet(main_array') = emitted
          /\ (idx["ems2p"] >= 1 /\ main_array # <<>>)
                => ToSet(main_array') = ToSet(main_array) \cap emitted
          /\ StrictlyAscending(main_array')
      ]_vars

\* sequence_candidates of Ems1.search for each of the first i sequences
CandidatesUpTo(i) == [j \in 1 .. i |-> Ems1Candidates(reads[j], l, d)]

SetMax(S) == CHOOSE n \in S : \A k \in S : k <= n

\* motif_counts and last_seq_match are the fold of the first i candidate sets
Ems1FoldOK ==
    \A cand \in {CandidatesUpTo(idx["ems1"])} :
    LET i == idx["ems1"]
        ids(m) == {j \in 1 .. i : m \in cand[j]}
        all == [1 .. l -> Letters] \cup DOMAIN motif_counts
                  \cup DOMAIN last_seq_match
    IN \A m \in all :
          /\ DictGet(motif_counts, m, 0) = Cardinality(ids(m))
          /\ m \in DOMAIN last_seq_match <=> ids(m) # {}
          /\ m \in DOMAIN last_seq_match =>
                /\ last_seq_match[m] <= i
                /\ last_seq_match[m] = SetMax(ids(m))

\* motifs of Ems1 holds exactly the strings counted N times, each once
Ems1OutputOK ==
    /\ ToSet(motifs["ems1"]) =
          {m \in [1 .. l -> Letters] \cup DOMAIN motif_counts :
              DictGet(motif_counts, m, 0) = Len(reads)}
    /\ Len(motifs["ems1"]) = Cardinality(ToSet(motifs["ems1"]))

\* C14: in Ems1.search, after the fold for sequence i, motif_counts[m] (0 if
\* absent) is the number of sequences 1..i whose candidate set contains m and
\* last_seq_match[m] is the largest such id (at most i); the final output is
\* exactly the strings whose count is N.
C14_Ems1GlobalState ==
    [][ /\ SeqStep("ems1") => Ems1FoldOK'
        /\ (~returned["ems1"] /\ returned'["ems1"]) => Ems1OutputOK'
      ]_vars

\* Ems1.search has returned after three sequences: one string was a candidate
\* of every sequence, another of the first sequence only
C14_Witness ==
    /\ returned["ems1"]
    /\ Len(reads) = 3
    /\ motifs["ems1"] # <<>>
    /\ \E m \in DOMAIN motif_counts :
          motif_counts[m] = 1 /\ last_seq_match[m] = 1

\* C15: for each engine, the list motifs left by search() is strictly
\* ascending in lexicographic order (sorted, no string twice).
C15_SortedNoDuplicates ==
    \A e \in EngineSet :
        returned[e] =>
            \A n \in 1 .. (Len(motifs[e]) - 1) :
                LexLess(motifs[e][n], motifs[e][n + 1])

\* every engine has returned at least two motifs for an input of at least two
\* sequences searched with d >= 1
C15_Witness ==
    /\ d >= 1
    /\ Len(reads) >= 2
    /\ \A e \in EngineSet : returned[e] /\ Len(motifs[e]) >= 2

\* C16: for each engine, every string of motifs after search() has length
\* exactly l and holds letter codes 0..3 only (no wildcard code, no
\* deletion mark).
C16_NoScaffoldInOutput ==
    \A e \in EngineSet :
        returned[e] =>
            \A n \in 1 .. Len(motifs[e]) :
                /\ Len(motifs[e][n]) = l
                /\ \A p \in 1 .. l : motifs[e][n][p] \in Letters

\* every engine has returned some motif for l = 1, d = 1 and a sequence of
\* length 2, where Ems2 inserts wildcard patterns and marks deletions
C16_Witness ==
    /\ l = 1
    /\ d = 1
    /\ \E n \in 1 .. Len(reads) : Len(reads[n]) > l
    /\ \A e \in EngineSet : returned[e] /\ motifs[e] # <<>>

\* C18: the main_array Ems2p._gen_all leaves after each sequence, and so the
\* final motifs, is the same whatever the worker count: the step taken with
\* num_threads workers leaves what the step with any other count T2 leaves.
C18_WorkerCountIndependence ==
    [][ SeqStep("ems2p") =>
          \A T2 \in 1 .. (MaxThreads + 1) :
             main_array' = Ems2p_gen_all(reads[idx["ems2p"] + 1], main_array,
                                         l, d, T2)
      ]_vars

\* two workers each returned a non-empty shard for the second sequence
C18_Witness ==
    /\ num_threads = 2
    /\ idx["ems2p"] = 2
    /\ main_array # <<>>
    /\ \E prev \in {Ems2p_gen_all(reads[1], <<>>, l, d, num_threads)} :
          LET results == ShardResults(reads[2], prev, l, d, num_threads)
          IN Len(results) = 2 /\ results[1] # <<>> /\ results[2] # <<>>
                /\ results[1] # results[2]

\* the strings the main structure of an Ems2-family engine stands for
MainRep(e) ==
    IF e = "ems2" THEN RepFast(fastA)
    ELSE IF e = "ems2m" THEN RepSimple(simpA)
    ELSE {get_kmer(main_array[n], l) : n \in 1 .. Len(main_array)}

\* C24: in Ems2.search (both tries) and Ems2p.search, the set the main
\* structure stands for after sequence i >= 1 is a subset of the set after
\* sequence i-1 (so an empty set stays empty), and a search that ends on an
\* empty set leaves motifs empty.
C24_CandidatesOnlyShrink ==
    [][ \A e \in {"ems2", "ems2m", "ems2p"} :
          /\ (SeqStep(e) /\ idx[e] >= 1) => (MainRep(e)' \subseteq MainRep(e))
          /\ (~returned[e] /\ returned'[e] /\ MainRep(e)' = {})
                => motifs'[e] = <<>>
      ]_vars

\* the fast trie went through two intersections: the first left fewer strings
\* than sequence 0 gave, the second left none
C24_Witness ==
    /\ idx["ems2"] = 3
    /\ RepFast(fastA) = {}
    /\ \E first \in {FastInsertAll(NewFastTree, Ems2_gen_all(reads[1], l, d), l)} :
        \E second \in {FastIntersect(first,
                          FastInsertAll(NewFastTree, Ems2_gen_all(reads[2], l, d), l), l)} :
          /\ ToSet(FastTraverse(second, l)) # {}
          /\ ToSet(FastTraverse(second, l)) # ToSet(FastTraverse(first, l))

----------------------------------------------------------------------------
(* Claims on single calls (checked under SpecCall) *)

\* the strings of length ll within edit distance dd of x
Ball(x, ll, dd) == {y \in [1 .. ll -> Letters] : edist(x, y) <= dd}

\* C11: for every kmer x with max(1, l-d) <= |x| <= l+d, the patterns Ems2
\* passes to tree.insert for x, each wildcard replaced by any letter, are
\* together exactly the length-l strings within edit distance d of x.
C11_Ems2NeighborhoodExact ==
    call_fn = "Ems2._gen_nbrhood" =>
        UNION {Expand(p) : p \in ToSet(call_out)}
            = Ball(call_arg.x, call_arg.ll, call_arg.dd)

\* a kmer one shorter than l went through Ems2's enumerator with d = 1: some
\* pattern carries an inserted wildcard and some length-l string is too far
C11_Witness ==
    /\ call_fn = "Ems2._gen_nbrhood"
    /\ call_arg.dd = 1
    /\ Len(call_arg.x) = call_arg.ll - 1
    /\ \E p \in ToSet(call_out) : WILDCARD_CODE \in ToSet(p)
    /\ Ball(call_arg.x, call_arg.ll, call_arg.dd) # [1 .. call_arg.ll -> Letters]

\* C12: Ems1._generate_neighborhood(x, d, l, S) on an empty S leaves S equal
\* to the set of length-l strings within edit distance d of x, the strings at
\* distance less than d (x itself when |x| = l) included.
C12_Ems1NeighborhoodExact ==
    call_fn = "Ems1._generate_neighborhood" =>
        call_out = Ball(call_arg.x, call_arg.ll, call_arg.dd)

\* C13: the keys NbdGenerator.generate() appends for x decode to exactly the
\* length-l strings within edit distance d of x (each substituted or inserted
\* position stands for every letter 0..3).
C13_ParallelNeighborhoodExact ==
    call_fn = "NbdGenerator.generate" =>
        {get_kmer(key, call_arg.ll) : key \in ToSet(call_out)}
            = Ball(call_arg.x, call_arg.ll, call_arg.dd)

\* C17: for a string s of length l over the digits 0..3, Motif(s).get_kmer(l)
\* is s again, and two such strings of the same length have equal packed data
\* exactly when they are equal.
C17_PackUnpackRoundTrip ==
    call_fn = "Motif.get_kmer" =>
        /\ call_out.kmer = call_arg.x
        /\ (call_out.data = call_out.other) <=> (call_arg.x = call_arg.a)

\* two different strings of length 3, the first starting with letter 0 and
\* holding letter 3, were packed
C17_Witness ==
    /\ call_fn = "Motif.get_kmer"
    /\ Len(call_arg.x) = 3
    /\ call_arg.x[1] = 0
    /\ 3 \in ToSet(call_arg.x)
    /\ call_arg.a # call_arg.x
    /\ ToSet(call_arg.a) = ToSet(call_arg.x)

\* C19: the task list of Ems2p._gen_all has at most T ranges (start, end),
\* each with start < end and at most ceil(total_load / T) items, contiguous
\* and disjoint, covering exactly [0, total_load): each work item belongs to
\* exactly one range.
C19_ShardPartition ==
    call_fn = "Ems2p._gen_all.tasks" =>
        LET tasks == call_out
            total_load == call_arg.total_load
            T == call_arg.T
        IN /\ Len(tasks) <= T
           /\ \A n \in 1 .. Len(tasks) :
                 /\ tasks[n].start < tasks[n].end
                 /\ (tasks[n].end - tasks[n].start) * T < total_load + T
                 /\ n > 1 => tasks[n].start = tasks[n - 1].end
           /\ \A j \in 0 .. (total_load - 1) :
                 Cardinality({n \in 1 .. Len(tasks) :
                                 tasks[n].start <= j /\ j < tasks[n].end}) = 1
           /\ \A n \in 1 .. Len(tasks) :
                 tasks[n].start >= 0 /\ tasks[n].end <= total_load

\* four work items were split for three workers: fewer ranges than workers
C19_Witness ==
    /\ call_fn = "Ems2p._gen_all.tasks"
    /\ call_arg.total_load = 4
    /\ call_arg.T = 3
    /\ Len(call_out) = 2

\* C20: for strictly ascending a and b, _merge_motifs(a, b) is strictly
\* ascending with key set keys(a) union keys(b); the binary merging loop on
\* n >= 1 such lists ends with exactly one list whose key set is the union of
\* all n.
C20_CrossShardReduction ==
    /\ call_fn = "Ems2p._merge_motifs" =>
          /\ StrictlyAscending(call_out)
          /\ ToSet(call_out) = ToSet(call_arg.a) \cup ToSet(call_arg.b)
    /\ call_fn = "Ems2p._gen_all.merge" =>
          /\ Len(call_out) = 1
          /\ StrictlyAscending(call_out[1])
          /\ ToSet(call_out[1]) =
                UNION {ToSet(call_arg.lists[n]) : n \in 1 .. Len(call_arg.lists)}

\* three different non-empty lists, the first two sharing a key, went through
\* the merging loop
C20_Witness ==
    /\ call_fn = "Ems2p._gen_all.merge"
    /\ Len(call_arg.lists) = 3
    /\ \A n \in 1 .. 3 : call_arg.lists[n] # <<>>
    /\ ToSet(call_arg.lists[1]) \cap ToSet(call_arg.lists[2]) # {}
    /\ call_arg.lists[1] # call_arg.lists[2]
    /\ ~(ToSet(call_arg.lists[3]) \subseteq
            (ToSet(call_arg.lists[1]) \cup ToSet(call_arg.lists[2])))

\* the budget (k, delta, sigma, alpha) splits at most dd edits and turns a
\* kmer of length k into a string of length ll
BudgetOK(b, ll, dd) ==
    /\ b.delta >= 0
    /\ b.alpha >= 0
    /\ b.sigma >= 0
    /\ b.delta + b.sigma + b.alpha <= dd
    /\ b.k - b.delta + b.alpha = ll
    /\ b.k - ll <= dd
    /\ ll - b.k <= dd

\* C21: every (delta, sigma, alpha) that Ems2._gen_all and
\* NbdGenerator.generate go through for a length k has delta, sigma and
\* alpha non-negative, delta + sigma + alpha <= d and k - delta + alpha = l;
\* the lengths k gone through are exactly max(1, l-d) .. min(|seq|, l+d).
C21_EditBudgetPartition ==
    call_fn = "_gen_all.budgets" =>
        LET ll == call_arg.ll
            dd == call_arg.dd
            m == call_arg.total_load
            lengths == Max(1, ll - dd) .. Min(m, ll + dd)
        IN /\ \A n \in 1 .. Len(call_out.ems2) : BudgetOK(call_out.ems2[n], ll, dd)
           /\ \A n \in 1 .. Len(call_out.nbd) : BudgetOK(call_out.nbd[n], ll, dd)
           /\ {call_out.ems2[n].k : n \in 1 .. Len(call_out.ems2)} = lengths
           /\ {call_out.works[n].k : n \in 1 .. Len(call_out.works)} = lengths
           /\ {call_out.nbd[n].k : n \in 1 .. Len(call_out.nbd)} = lengths

\* l = 2, d = 2 on a sequence of length 3: the lengths 1..3 are gone through
\* (4 is cut off by the sequence) and some budget mixes a deletion with an
\* insertion
C21_Witness ==
    /\ call_fn = "_gen_all.budgets"
    /\ call_arg.ll = 2
    /\ call_arg.dd = 2
    /\ call_arg.total_load = 3
    /\ \E n \in 1 .. Len(call_out.ems2) :
          call_out.ems2[n].delta = 1 /\ call_out.ems2[n].alpha = 1
    /\ \E n \in 1 .. Len(call_out.nbd) :
          call_out.nbd[n].k = 3 /\ call_out.nbd[n].delta = 1
             /\ call_out.nbd[n].sigma = 1

\* C22: a call of a phase function of either enumerator returns with the
\* scratch buffer (self.kmer of Ems2, self.x of NbdGenerator) equal to its
\* value on entry, and generate() ends on the substring it started from.
C22_BacktrackRestoresBuffer ==
    call_fn = "_gen_nbrhood" =>
        /\ call_out.kmer = call_arg.x
        /\ call_out.x = call_arg.x
        /\ call_out.generate = call_arg.x

----------------------------------------------------------------------------
(* Claims on MotifSet (checked under SpecSet) *)

\* C25: after a fresh or cleared MotifSet received init_add calls with
\* strictly ascending lists, the get_min calls return True once for every
\* distinct key of the added segments, in strictly ascending order (key 0
\* included), and False from then on.
C25_KWayMergeDistinctAscending ==
    /\ StrictlyAscending(ms_log.popped)
    /\ ToSet(ms_log.popped) \subseteq ms_log.added
    /\ ms_log.falses > 0 => ToSet(ms_log.popped) = ms_log.added

====
